---- MODULE Spec2Model ----
(***************************************************************************)
(* A model of the rust-s3 response future (src/src/async.rs), of the       *)
(* paginated listing loop (src/src/bucket.rs) and of the transport they    *)
(* talk to.                                                                *)
(***************************************************************************)
EXTENDS Integers, Sequences, FiniteSets, TLC

(* ------------------------------ bounds --------------------------------- *)

\* Total number of body bytes the server sends in one response.
MaxBody == 3

\* Number of responses the server gives to the requests of one list call.
MaxPages == 3

\* Total number of body bytes in the study of the future's progress.
MaxLiveBody == 2

(* ------------------------------ inputs --------------------------------- *)

\* Body bytes: the two XML delimiters, a name character, and a byte that is
\* never valid UTF-8.
Bytes == {"<", ">", "a", "xFF"}

\* HTTP status codes delivered by the transport.
Statuses == {200, 299, 300, 404}

\* Command::http_verb() of the request that was sent.
Verbs == {"GET", "PUT", "DELETE"}

\* The non-empty chunks of at most n bytes.
Chunks(n) == UNION {[1..k -> Bytes] : k \in 1..n}

RECURSIVE Concat(_)
\* Vec::extend applied chunk after chunk: the bytes of a sequence of chunks.
Concat(chunks) ==
    IF chunks = <<>> THEN <<>> ELSE Head(chunks) \o Concat(Tail(chunks))

(* ------------------------------ state ---------------------------------- *)

VARIABLES
    future,     \* the S3ResponseFuture enum value (tag, buffer, resp_code)
    pending,    \* the boxed request future held by Pending
    decoder,    \* the response body stream (reqwest Decoder)
    wire,       \* every chunk the server has put on the wire so far
    verb,       \* HTTP verb of the request
    requests,   \* number of requests handed to the HTTP client
    lastPoll,   \* what the latest call of poll returned
    polled,     \* calls of pending.poll() and decoder.poll() in that call
    data,       \* bytes the caller has drained from a successful response
    dataDone    \* the caller's drain saw the end of the stream

VARIABLES
    server,     \* the responses the server will give, in order
    served,     \* the responses it has given to the list call
    sent,       \* the Command::List requests sent, in order
    listArgs,   \* the prefix and delimiter Bucket::list was called with
    listResult  \* what Bucket::list returned

VARIABLES
    bucket,     \* the Bucket: name, region, credentials, extras, client
    clients,    \* number of HTTP clients built so far
    calls,      \* the blocking call of each thread
    lastSet,    \* the latest call of set_credentials
    asyncCall   \* what execute_async returned, and the client it sent with

VARIABLES
    credInput,  \* arguments, environment and credentials file of Credentials::new
    credOutput  \* what Credentials::new returned

futureVars == <<future, pending, decoder, wire, verb, requests, lastPoll,
                polled, data, dataDone>>

listVars == <<server, served, sent, listArgs, listResult>>

bucketVars == <<bucket, clients, calls, lastSet, asyncCall>>

credVars == <<credInput, credOutput>>

vars == <<futureVars, listVars, bucketVars, credVars>>

(* --------------------------- S3ResponseFuture -------------------------- *)

\* Before execute_async has returned there is no future at all.
Unborn == [tag |-> "Unborn", buffer |-> <<>>, resp_code |-> 0]
Pending == [tag |-> "Pending", buffer |-> <<>>, resp_code |-> 0]
ParseError(buffer, resp_code) ==
    [tag |-> "ParseError", buffer |-> buffer, resp_code |-> resp_code]
Done == [tag |-> "Done", buffer |-> <<>>, resp_code |-> 0]
None == [tag |-> "None", buffer |-> <<>>, resp_code |-> 0]

\* Values of Poll<S3Response, S3Error>, and the two panics.
NoPoll == [kind |-> "NoPoll", error |-> "", status |-> 0, info |-> <<>>, body |-> <<>>]
NotReady == [kind |-> "NotReady", error |-> "", status |-> 0, info |-> <<>>, body |-> <<>>]
Ready(status) ==
    [kind |-> "Ready", error |-> "", status |-> status, info |-> <<>>, body |-> <<>>]
ReqwestError ==
    [kind |-> "Err", error |-> "Reqwest", status |-> 0, info |-> <<>>, body |-> <<>>]
SerdeXmlError ==
    [kind |-> "Err", error |-> "SerdeXml", status |-> 0, info |-> <<>>, body |-> <<>>]
AwsError(info, status, body) ==
    [kind |-> "Err", error |-> "AwsError", status |-> status, info |-> info, body |-> body]
Panic(msg) ==
    [kind |-> "Panic", error |-> msg, status |-> 0, info |-> <<>>, body |-> <<>>]

\* serde_xml::deserialize into AwsError: the bytes must be valid UTF-8 and
\* form one element, "<" name ">"; the element's text becomes the code.
Deserialize(buffer) ==
    LET n == Len(buffer)
        wellFormed ==
            /\ n >= 2
            /\ buffer[1] = "<"
            /\ buffer[n] = ">"
            /\ \A i \in 2..(n - 1) : buffer[i] = "a"
    IN  IF wellFormed
        THEN [ok |-> TRUE, code |-> SubSeq(buffer, 2, n - 1)]
        ELSE [ok |-> FALSE, code |-> <<>>]

\* String::from_utf8_lossy: an invalid byte becomes U+FFFD.
FromUtf8Lossy(bytes) ==
    [i \in 1..Len(bytes) |-> IF bytes[i] = "xFF" THEN "U+FFFD" ELSE bytes[i]]

\* A plausible slip: the chunk replaces the buffer instead of extending it.
ExtendOverwrite(buffer, chunk) == chunk

\* A plausible slip: the chunk put in front of the buffer.
ExtendPrepend(buffer, chunk) == chunk \o buffer

\* buffer.extend(chunk)
Extend(buffer, chunk) == buffer \o chunk

\* A plausible slip: the threshold test written with <=.
IsSuccessInclusive(resp_code) == resp_code <= 300

\* if resp_code < 300
IsSuccess(resp_code) == resp_code < 300

\* A plausible slip: the body is drained before the success is returned.
OnResponseEager(s) ==
    LET resp_code == s.pending.status
    IN  IF IsSuccess(resp_code)
        THEN [s EXCEPT !.future = Done, !.ret = Ready(resp_code),
                       !.decoder.queue = <<>>]
        ELSE [s EXCEPT !.future = ParseError(<<>>, resp_code)]

\* A plausible slip: the status narrowed to eight bits (as u8).
OnResponseNarrow(s) ==
    LET resp_code == s.pending.status
    IN  IF IsSuccess(resp_code)
        THEN [s EXCEPT !.future = Done, !.ret = Ready(resp_code)]
        ELSE [s EXCEPT !.future = ParseError(<<>>, resp_code % 256)]

\* The arm of poll taken when pending.poll() is Ok(Async::Ready(response)).
OnResponse(s) ==
    LET resp_code == s.pending.status
    IN  IF IsSuccess(resp_code)
        THEN [s EXCEPT !.future = Done, !.ret = Ready(resp_code)]
        ELSE [s EXCEPT !.future = ParseError(<<>>, resp_code)]

\* pending.poll() is Ok(Async::NotReady): the future is put back.
OnPendingNotReady(s) == [s EXCEPT !.future = Pending, !.ret = NotReady]

\* A plausible slip: the future marked Done before the error is returned.
OnPendingErrorDone(s) == [s EXCEPT !.future = Done, !.ret = ReqwestError]

\* pending.poll() is Err(e): return Err(e.into()), self stays None.
OnPendingError(s) == [s EXCEPT !.future = None, !.ret = ReqwestError]

\* decoder.poll() is Ok(Async::Ready(Some(chunk))): extend and loop.
OnChunk(s) ==
    [s EXCEPT !.future = ParseError(Extend(s.future.buffer, Head(s.decoder.queue)),
                                    s.future.resp_code),
              !.decoder.queue = Tail(@)]

\* A plausible slip: the end of the body taken for a body not ready yet.
OnEndOfBodyWaits(s) == [s EXCEPT !.future = s.future, !.ret = NotReady]

\* A plausible slip: a failed parse unwrapped instead of propagated.
OnEndOfBodyUnwrap(s) ==
    LET buffer == s.future.buffer
        deserialized == Deserialize(buffer)
    IN  IF ~deserialized.ok
        THEN [s EXCEPT !.future = None, !.ret = Panic("called unwrap on an Err value")]
        ELSE [s EXCEPT !.future = Done,
                       !.ret = AwsError(deserialized.code, s.future.resp_code,
                                        FromUtf8Lossy(buffer))]

\* The arm of poll taken when decoder.poll() is Ok(Async::Ready(None)).
OnEndOfBody(s) ==
    LET buffer == s.future.buffer
        deserialized == Deserialize(buffer)
    IN  IF ~deserialized.ok
        THEN [s EXCEPT !.future = None, !.ret = SerdeXmlError]
        ELSE [s EXCEPT !.future = Done,
                       !.ret = AwsError(deserialized.code, s.future.resp_code,
                                        FromUtf8Lossy(buffer))]

\* A plausible slip: the state put back with a fresh buffer.
OnDecoderNotReadyReset(s) ==
    [s EXCEPT !.future = ParseError(<<>>, s.future.resp_code), !.ret = NotReady]

\* decoder.poll() is Ok(Async::NotReady): the state is put back.
OnDecoderNotReady(s) == [s EXCEPT !.future = s.future, !.ret = NotReady]

\* A plausible slip: the decoder's error swallowed and the poll retried later.
OnDecoderErrorRetry(s) == [s EXCEPT !.future = s.future, !.ret = NotReady]

\* decoder.poll() is Err(e): return Err(e.into()), self stays None.
OnDecoderError(s) == [s EXCEPT !.future = None, !.ret = ReqwestError]

\* A plausible slip: a finished future that answers NotReady again.
OnDoneResume(s) == [s EXCEPT !.future = Done, !.ret = NotReady]

\* S3ResponseFuture::Done => panic!; mem::replace has left None in self.
OnDone(s) ==
    [s EXCEPT !.future = None, !.ret = Panic("S3ResponseFuture used after Ready")]

\* A plausible slip: an emptied future that starts over instead of panicking.
OnNoneRestart(s) == [s EXCEPT !.future = Pending, !.ret = NotReady]

\* S3ResponseFuture::None => panic!
OnNone(s) ==
    [s EXCEPT !.future = None, !.ret = Panic("S3ResponseFuture is None")]

\* One turn of the loop of poll; ret stays NoPoll while the loop goes on.
PollStep(s) ==
    CASE s.future.tag = "Pending" ->
            LET t == [s EXCEPT !.nPending = @ + 1]
            IN  CASE s.pending.st = "response" ->
                        OnResponse([t EXCEPT !.pending.st = "taken"])
                  [] s.pending.st = "inflight" -> OnPendingNotReady(t)
                  [] OTHER -> OnPendingError([t EXCEPT !.pending.st = "taken"])
      [] s.future.tag = "ParseError" ->
            LET t == [s EXCEPT !.nDecoder = @ + 1]
            IN  CASE s.decoder.queue # <<>> -> OnChunk(t)
                  [] s.decoder.failed -> OnDecoderError(t)
                  [] s.decoder.ended -> OnEndOfBody(t)
                  [] OTHER -> OnDecoderNotReady(t)
      [] s.future.tag = "Done" -> OnDone(s)
      [] OTHER -> OnNone(s)

RECURSIVE PollLoop(_)
\* loop { ... } of poll, run until one arm returns or panics.
PollLoop(s) ==
    LET t == PollStep(s)
    IN  IF t.ret # NoPoll THEN t ELSE PollLoop(t)

(* ------------------ blocking mode and the two outcomes ------------------ *)

\* Outcome of the design: Success{status, body}, ServiceError{status, code,
\* raw_body}, or an error kind.
Outcome(kind, status, code, body) ==
    [kind |-> kind, status |-> status, code |-> code, body |-> body]

\* Blocking mode, Request::execute: the whole body is read, then the status
\* decides between the body as data and the body as a service error.
Execute(status, body) ==
    IF status < 300
    THEN Outcome("Success", status, <<>>, body)
    ELSE LET deserialized == Deserialize(body)
         IN  IF deserialized.ok
             THEN Outcome("ServiceError", status, deserialized.code, body)
             ELSE Outcome("MalformedErrorBody", 0, <<>>, <<>>)

(* ----------------------------- Bucket::list ---------------------------- *)

\* Option<String>: None and Some(token).
Nothing == <<>>
Some(x) == <<x>>

Tokens == {"abc", "def"}
Prefixes == {"", "dir/"}
Delimiters == {Nothing, Some("/")}

\* The list documents a server may send: their keys and the next token.
ListDocuments ==
    [xml : {"ListBucketResult"},
     contents : {<<"k1">>, <<"k2">>},
     next_continuation_token : {Nothing} \cup {Some(tk) : tk \in Tokens}]

\* A body that is not a list document.
Garbage ==
    [xml |-> "garbage", contents |-> <<>>, next_continuation_token |-> Nothing]

\* What the server may answer to one request.
Responses ==
    {[kind |-> "TransportError", status |-> 0, body |-> Garbage]}
    \cup [kind : {"Response"}, status : {200}, body : ListDocuments \cup {Garbage}]
    \cup {[kind |-> "Response", status |-> 404, body |-> <<"<", ">">>]}

Scripts(n) == UNION {[1..k -> Responses] : k \in 0..n}

\* serde_xml::deserialize into ListBucketResult.
DeserializeList(body) ==
    IF body.xml = "ListBucketResult"
    THEN [ok |-> TRUE,
          value |-> [contents |-> body.contents,
                     next_continuation_token |-> body.next_continuation_token]]
    ELSE [ok |-> FALSE, value |-> [contents |-> <<>>, next_continuation_token |-> Nothing]]

NoPage == <<[contents |-> <<>>, next_continuation_token |-> Nothing], 0>>

\* Bucket::_list: one Command::List request, executed and deserialized.
\* net is the server's script with the log of what was sent and served; a
\* server with nothing left to say never answers.
ListPage(net, prefix, delimiter, continuation_token) ==
    LET command == [prefix |-> prefix, delimiter |-> delimiter,
                    continuation_token |-> continuation_token]
        asked == [net EXCEPT !.sent = Append(@, command)]
    IN  IF net.server = <<>>
        THEN [ret |-> "Hung", value |-> NoPage, net |-> asked]
        ELSE LET response == Head(net.server)
                 answered == [asked EXCEPT !.server = Tail(@),
                                           !.served = Append(@, response)]
             IN  IF response.kind = "TransportError"
                 THEN [ret |-> "Err", value |-> NoPage, net |-> answered]
                 ELSE LET result == Execute(response.status, response.body)
                      IN  IF result.kind # "Success"
                          THEN [ret |-> "Err", value |-> NoPage, net |-> answered]
                          ELSE LET deserialized == DeserializeList(result.body)
                               IN  IF ~deserialized.ok
                                   THEN [ret |-> "Err", value |-> NoPage,
                                         net |-> answered]
                                   ELSE [ret |-> "Ok",
                                         value |-> <<deserialized.value, result.status>>,
                                         net |-> answered]

\* A plausible slip: the loop left after the first push, whatever the token.
ListLoopOnePage(st) ==
    [ret |-> "Ok", results |-> Append(st.results, st.result), net |-> st.net]

RECURSIVE ListLoopKeepsPages(_)
\* A plausible slip: a failing page ends the loop with the pages fetched so
\* far instead of dropping them.
ListLoopKeepsPages(st) ==
    LET results == Append(st.results, st.result)
        token == st.result[1].next_continuation_token
    IN  IF token # Nothing
        THEN LET r == ListPage(st.net, st.prefix, st.delimiter, token)
             IN  IF r.ret # "Ok"
                 THEN [ret |-> r.ret, results |-> results, net |-> r.net]
                 ELSE ListLoopKeepsPages([st EXCEPT !.results = results,
                                                    !.result = r.value,
                                                    !.net = r.net])
        ELSE [ret |-> "Ok", results |-> results, net |-> st.net]

RECURSIVE ListLoopStaleToken(_)
\* A plausible slip: every later request repeats the first page's token.
ListLoopStaleToken(st) ==
    LET results == Append(st.results, st.result)
        token == st.result[1].next_continuation_token
    IN  IF token # Nothing
        THEN LET r == ListPage(st.net, st.prefix, st.delimiter,
                               results[1][1].next_continuation_token)
             IN  IF r.ret # "Ok"
                 THEN [ret |-> r.ret, results |-> <<>>, net |-> r.net]
                 ELSE ListLoopStaleToken([st EXCEPT !.results = results,
                                                    !.result = r.value,
                                                    !.net = r.net])
        ELSE [ret |-> "Ok", results |-> results, net |-> st.net]

RECURSIVE ListLoop(_)
\* loop { results.push(result.clone()); match next_continuation_token ... }
ListLoop(st) ==
    LET results == Append(st.results, st.result)
        token == st.result[1].next_continuation_token
    IN  IF token # Nothing
        THEN LET r == ListPage(st.net, st.prefix, st.delimiter, token)
             IN  IF r.ret # "Ok"
                 THEN [ret |-> r.ret, results |-> <<>>, net |-> r.net]
                 ELSE ListLoop([st EXCEPT !.results = results,
                                          !.result = r.value,
                                          !.net = r.net])
        ELSE [ret |-> "Ok", results |-> results, net |-> st.net]

\* Bucket::list
ListAll(net, prefix, delimiter) ==
    LET first == ListPage(net, prefix, delimiter, Nothing)
    IN  IF first.ret # "Ok"
        THEN [ret |-> first.ret, results |-> <<>>, net |-> first.net]
        ELSE ListLoop([results |-> <<>>, result |-> first.value, net |-> first.net,
                       prefix |-> prefix, delimiter |-> delimiter])

(* -------------------------------- Bucket ------------------------------- *)

\* Credentials values a Bucket may hold.
Credentials(access_key, secret_key, token) ==
    [access_key |-> access_key, secret_key |-> secret_key, token |-> token]

CredentialsSet ==
    {Credentials("AKIA1", "secret1", Nothing),
     Credentials("AKIA2", "secret2", Nothing),
     Credentials("AKIA2", "secret2", Some("token2"))}

HeaderValues == {"v1", "v2"}

\* HashMap::insert: the pair replaces any pair with the same key.
Insert(map, key, value) == {kv \in map : kv[1] # key} \cup {<<key, value>>}

\* Bucket::new: the one place where the Bucket builds its HTTP client.
NewBucket(name, region, credentials, client) ==
    [name |-> name, region |-> region, credentials |-> credentials,
     extra_headers |-> {}, extra_query |-> {}, client |-> client]

\* A plausible slip: the new credentials returned instead of the old ones.
SetCredentialsReturnsNew(b, credentials) ==
    [bucket |-> [b EXCEPT !.credentials = credentials], ret |-> credentials]

\* Bucket::set_credentials: mem::replace(&mut self.credentials, credentials)
SetCredentials(b, credentials) ==
    [bucket |-> [b EXCEPT !.credentials = credentials], ret |-> b.credentials]

\* Bucket::add_header
AddHeader(b, key, value) ==
    [b EXCEPT !.extra_headers = Insert(@, key, value)]

\* Bucket::add_query
AddQuery(b, key, value) ==
    [b EXCEPT !.extra_query = Insert(@, key, value)]

\* The Command variants of the blocking calls.
CommandGet ==
    [type |-> "Get", content |-> <<>>, content_type |-> "",
     prefix |-> "", delimiter |-> Nothing, continuation_token |-> Nothing]
CommandDelete ==
    [type |-> "Delete", content |-> <<>>, content_type |-> "",
     prefix |-> "", delimiter |-> Nothing, continuation_token |-> Nothing]
CommandPut(content, content_type) ==
    [type |-> "Put", content |-> content, content_type |-> content_type,
     prefix |-> "", delimiter |-> Nothing, continuation_token |-> Nothing]
CommandList(prefix, delimiter, continuation_token) ==
    [type |-> "List", content |-> <<>>, content_type |-> "",
     prefix |-> prefix, delimiter |-> delimiter,
     continuation_token |-> continuation_token]

\* Request::new(self, path, command): the request refers to the Bucket.
Request(b, path, command) == [bucket |-> b, path |-> path, command |-> command]

\* Request::execute sends with the client of the Bucket (Bucket::client).
RequestClient(request) == request.bucket.client

\* Request::execute on what the server answered: Ok((body, status)) or Err.
ExecuteRequest(response) ==
    IF response.kind = "TransportError"
    THEN [ret |-> "Err", error |-> "Reqwest", body |-> <<>>, status |-> 0]
    ELSE LET result == Execute(response.status, response.body)
         IN  IF result.kind = "Success"
             THEN [ret |-> "Ok", error |-> "", body |-> result.body,
                   status |-> result.status]
             ELSE [ret |-> "Err", error |-> result.kind, body |-> <<>>,
                   status |-> 0]

\* The call of a thread: where it stands, its request, the number of
\* requests it has sent, the number of answers it has got, the pages a list
\* has collected, and what it returned.
NoOutcome == [ret |-> "None", error |-> "", body |-> <<>>, status |-> 0]
IdleCall ==
    [pc |-> "idle", request |-> Request(NewBucket("", "", Credentials("", "", Nothing), 0),
                                        "", CommandGet),
     nsent |-> 0, answers |-> 0, results |-> <<>>, outcome |-> NoOutcome]

\* A plausible slip: the request built from a Bucket with default credentials.
BucketCallDefaultCredentials(b, path, command) ==
    [pc |-> "waiting",
     request |-> Request([b EXCEPT !.credentials = Credentials("", "", Nothing)],
                         path, command),
     nsent |-> 1, answers |-> 0, results |-> <<>>, outcome |-> NoOutcome]

\* Bucket::get, Bucket::delete, Bucket::put and the first _list of
\* Bucket::list, up to request.execute(): one request built, one sent.
BucketCall(b, path, command) ==
    [pc |-> "waiting", request |-> Request(b, path, command),
     nsent |-> 1, answers |-> 0, results |-> <<>>, outcome |-> NoOutcome]

\* Bucket::get, Bucket::delete, Bucket::put from request.execute() on: the
\* result of execute is the result of the call.
BucketReturn(call, response) ==
    [call EXCEPT !.pc = "done", !.answers = @ + 1,
                 !.outcome = ExecuteRequest(response)]

\* Bucket::list from the answer to one _list on: the page is pushed and the
\* next page asked for, or the call returns.
BucketListReturn(call, response) ==
    LET command == call.request.command
        r == ListPage([server |-> <<response>>, served |-> <<>>, sent |-> <<>>],
                      command.prefix, command.delimiter,
                      command.continuation_token)
        results == Append(call.results, r.value)
        token == r.value[1].next_continuation_token
    IN  IF r.ret # "Ok"
        THEN [call EXCEPT !.pc = "done", !.answers = @ + 1, !.results = <<>>,
                          !.outcome = [NoOutcome EXCEPT !.ret = "Err"]]
        ELSE IF token # Nothing
             THEN [call EXCEPT !.answers = @ + 1, !.results = results,
                               !.nsent = @ + 1,
                               !.request.command.continuation_token = token]
             ELSE [call EXCEPT !.pc = "done", !.answers = @ + 1,
                               !.results = results,
                               !.outcome = [NoOutcome EXCEPT !.ret = "Ok"]]

\* A plausible slip: the request sent before the headers are signed.
ExecuteAsyncSendsFirst(built, v, signed) ==
    IF ~signed
    THEN [result |-> "Err", client |-> built + 1, clients |-> built + 1,
          requests |-> 1, future |-> Unborn,
          pending |-> [st |-> "absent", status |-> 0]]
    ELSE [result |-> "Ok", client |-> built + 1, clients |-> built + 1,
          requests |-> 1, future |-> Pending,
          pending |-> [st |-> "inflight", status |-> 0]]

\* A plausible slip: the request sent a second time.
ExecuteAsyncSendsTwice(built, v, signed) ==
    IF ~signed
    THEN [result |-> "Err", client |-> 0, clients |-> built + 1,
          requests |-> 0, future |-> Unborn,
          pending |-> [st |-> "absent", status |-> 0]]
    ELSE [result |-> "Ok", client |-> built + 1, clients |-> built + 1,
          requests |-> 2, future |-> Pending,
          pending |-> [st |-> "inflight", status |-> 0]]

\* Request::execute_async when `built` clients exist: a client is built,
\* then the headers are signed (self.headers()?), then the request is sent
\* with the new client and the future starts in Pending.
ExecuteAsyncCall(built, v, signed) ==
    IF ~signed
    THEN [result |-> "Err", client |-> 0, clients |-> built + 1,
          requests |-> 0, future |-> Unborn,
          pending |-> [st |-> "absent", status |-> 0]]
    ELSE [result |-> "Ok", client |-> built + 1, clients |-> built + 1,
          requests |-> 1, future |-> Pending,
          pending |-> [st |-> "inflight", status |-> 0]]

(* ----------------------------- Credentials ----------------------------- *)

\* The arguments of Credentials::new.
CredArgs ==
    [access_key : {Nothing, Some("ARG_KEY")},
     secret_key : {Nothing, Some("ARG_SECRET")},
     token      : {Nothing, Some("ARG_TOKEN")},
     profile    : {Nothing, Some("work")}]

\* The three environment variables, each set or not.
CredEnvs ==
    [AWS_ACCESS_KEY_ID     : {Nothing, Some("ENV_KEY")},
     AWS_SECRET_ACCESS_KEY : {Nothing, Some("ENV_SECRET")},
     AWS_SESSION_TOKEN     : {Nothing, Some("ENV_TOKEN")}]

\* A section of ~/.aws/credentials: absent, or present with some of the keys.
CredSections ==
    {[present |-> FALSE, aws_access_key_id |-> Nothing,
      aws_secret_access_key |-> Nothing]}
    \cup [present : {TRUE},
          aws_access_key_id : {Nothing, Some("FILE_KEY")},
          aws_secret_access_key : {Nothing, Some("FILE_SECRET")}]

SectionNames == {"default", "work"}

\* The home directory and the credentials file: no home directory, no file
\* (or one that does not load), or a file with its sections.
CredFiles ==
    {[home |-> FALSE, loads |-> FALSE, sections |-> [n \in SectionNames |-> s]] :
        s \in {CHOOSE x \in CredSections : ~x.present}}
    \cup {[home |-> TRUE, loads |-> FALSE, sections |-> [n \in SectionNames |-> s]] :
        s \in {CHOOSE x \in CredSections : ~x.present}}
    \cup [home : {TRUE}, loads : {TRUE}, sections : [SectionNames -> CredSections]]

CredOk(access_key, secret_key, token, consulted) ==
    [ret |-> "Ok", credentials |-> Credentials(access_key, secret_key, token),
     consulted |-> consulted]
CredErr(consulted) ==
    [ret |-> "Err", credentials |-> Credentials("", "", Nothing),
     consulted |-> consulted]

\* Credentials::from_env
FromEnv(env) ==
    IF env.AWS_ACCESS_KEY_ID = Nothing \/ env.AWS_SECRET_ACCESS_KEY = Nothing
    THEN CredErr(<<"env">>)
    ELSE CredOk(env.AWS_ACCESS_KEY_ID[1], env.AWS_SECRET_ACCESS_KEY[1],
                env.AWS_SESSION_TOKEN, <<"env">>)

\* Credentials::from_profile
FromProfile(file, section) ==
    LET name == IF section # Nothing THEN section[1] ELSE "default"
        d == file.sections[name]
    IN  IF ~file.home \/ ~file.loads \/ ~d.present
           \/ d.aws_access_key_id = Nothing \/ d.aws_secret_access_key = Nothing
        THEN CredErr(<<"file">>)
        ELSE CredOk(d.aws_access_key_id[1], d.aws_secret_access_key[1],
                    Nothing, <<"file">>)

\* A plausible slip: the environment preferred to the arguments.
CredentialsNewEnvFirst(args, env, file) ==
    LET e == FromEnv(env)
        f == FromProfile(file, args.profile)
    IN  IF e.ret = "Ok" THEN e
        ELSE IF args.access_key # Nothing /\ args.secret_key # Nothing
        THEN CredOk(args.access_key[1], args.secret_key[1], args.token,
                    e.consulted)
        ELSE IF f.ret = "Ok"
             THEN [f EXCEPT !.consulted = e.consulted \o f.consulted]
             ELSE [ret |-> "Panic", credentials |-> f.credentials,
                   consulted |-> e.consulted \o f.consulted]

\* A plausible slip: a token given as argument kept when the keys come from
\* the environment or the file.
CredentialsNewKeepsToken(args, env, file) ==
    IF args.access_key # Nothing /\ args.secret_key # Nothing
    THEN CredOk(args.access_key[1], args.secret_key[1], args.token, <<>>)
    ELSE LET e == FromEnv(env)
             f == FromProfile(file, args.profile)
             keep(c) == IF args.token # Nothing
                        THEN [c EXCEPT !.credentials.token = args.token]
                        ELSE c
         IN  IF e.ret = "Ok" THEN keep(e)
             ELSE IF f.ret = "Ok"
                  THEN keep([f EXCEPT !.consulted = e.consulted \o f.consulted])
                  ELSE [ret |-> "Panic", credentials |-> f.credentials,
                        consulted |-> e.consulted \o f.consulted]

\* Credentials::new
CredentialsNew(args, env, file) ==
    IF args.access_key # Nothing /\ args.secret_key # Nothing
    THEN CredOk(args.access_key[1], args.secret_key[1], args.token, <<>>)
    ELSE LET e == FromEnv(env)
             f == FromProfile(file, args.profile)
         IN  IF e.ret = "Ok" THEN e
             ELSE IF f.ret = "Ok"
                  THEN [f EXCEPT !.consulted = e.consulted \o f.consulted]
                  ELSE [ret |-> "Panic", credentials |-> f.credentials,
                        consulted |-> e.consulted \o f.consulted]

(* ------------------------------ actions -------------------------------- *)

NoDecoder == [queue |-> <<>>, ended |-> FALSE, failed |-> FALSE]

NoArgs == [prefix |-> "", delimiter |-> Nothing]
NoList == [ret |-> "NoCall", results |-> <<>>]

\* The Bucket of the examples, as Bucket::new builds it: the first client.
InitialBucket ==
    NewBucket("rust-s3-test", "us-east-1",
              Credentials("AKIA1", "secret1", Nothing), 1)

Threads == {"t1", "t2"}
Paths == {"/test.file"}
SimpleCommands == {CommandGet, CommandDelete, CommandPut(<<"a">>, "text/plain")}

\* What the server may answer to a get, put or delete.
SimpleResponses ==
    {[kind |-> "TransportError", status |-> 0, body |-> <<>>],
     [kind |-> "Response", status |-> 200, body |-> <<"a">>],
     [kind |-> "Response", status |-> 404, body |-> <<"<", ">">>],
     [kind |-> "Response", status |-> 404, body |-> <<"a">>]}

\* What the server may answer to a page request of a thread's list.
PageResponses ==
    {[kind |-> "TransportError", status |-> 0, body |-> Garbage],
     [kind |-> "Response", status |-> 404, body |-> <<"<", ">">>],
     [kind |-> "Response", status |-> 200, body |-> Garbage]}
    \cup [kind : {"Response"}, status : {200},
          body : {d \in ListDocuments :
                     /\ d.contents = <<"k1">>
                     /\ d.next_continuation_token \in {Nothing, Some("abc")}}]

\* The answer is a list document that names a next page.
NamesNextPage(response) ==
    /\ response.kind = "Response"
    /\ response.status = 200
    /\ response.body.next_continuation_token # Nothing

NoSet ==
    [called |-> FALSE, given |-> Credentials("", "", Nothing),
     returned |-> Credentials("", "", Nothing),
     before |-> InitialBucket, after |-> InitialBucket]
NoAsyncCall == [result |-> "NoCall", client |-> 0]
NoCredInput ==
    [args |-> CHOOSE a \in CredArgs : TRUE, env |-> CHOOSE e \in CredEnvs : TRUE,
     file |-> CHOOSE f \in CredFiles : ~f.home]
NoCredOutput == [CredErr(<<>>) EXCEPT !.ret = "NoCall"]

InitFuture ==
    /\ future = Unborn
    /\ pending = [st |-> "absent", status |-> 0]
    /\ decoder = NoDecoder
    /\ wire = <<>>
    /\ verb = "GET"
    /\ requests = 0
    /\ lastPoll = NoPoll
    /\ polled = [pending |-> 0, decoder |-> 0]
    /\ data = <<>>
    /\ dataDone = FALSE
    /\ server = <<>>
    /\ served = <<>>
    /\ sent = <<>>
    /\ listArgs = NoArgs
    /\ listResult = NoList
    /\ bucket = InitialBucket
    /\ clients = 1
    /\ calls = [t \in Threads |-> IdleCall]
    /\ lastSet = NoSet
    /\ asyncCall = NoAsyncCall
    /\ credInput = NoCredInput
    /\ credOutput = NoCredOutput

\* Request::execute_async for a command with verb v, on a Bucket that no
\* blocking call is using; signed tells whether self.headers() succeeds.
ExecuteAsync(v, signed) ==
    /\ future = Unborn
    /\ asyncCall = NoAsyncCall
    /\ \A t \in Threads : calls[t].pc = "idle"
    /\ LET r == ExecuteAsyncCall(clients, v, signed)
       IN  /\ asyncCall' = [result |-> r.result, client |-> r.client]
           /\ clients' = r.clients
           /\ requests' = requests + r.requests
           /\ pending' = r.pending
           /\ future' = r.future
    /\ verb' = v
    /\ UNCHANGED <<decoder, wire, lastPoll, polled, data, dataDone>>
    /\ UNCHANGED <<listVars, bucket, calls, lastSet, credVars>>

\* The transport delivers the response headers.
HeadersArrive(status) ==
    /\ pending.st = "inflight"
    /\ pending' = [st |-> "response", status |-> status]
    /\ UNCHANGED <<future, decoder, wire, verb, requests, lastPoll, polled,
                   data, dataDone>>
    /\ UNCHANGED <<listVars, bucketVars, credVars>>

\* The transport fails before any headers arrive.
TransportFails ==
    /\ pending.st = "inflight"
    /\ pending' = [st |-> "error", status |-> 0]
    /\ UNCHANGED <<future, decoder, wire, verb, requests, lastPoll, polled,
                   data, dataDone>>
    /\ UNCHANGED <<listVars, bucketVars, credVars>>

BodyOpen ==
    /\ pending.st \in {"response", "taken"}
    /\ ~decoder.ended
    /\ ~decoder.failed

\* A chunk of the body arrives and waits in the decoder.
ChunkArrives(chunk) ==
    /\ BodyOpen
    /\ Len(Concat(wire)) + Len(chunk) <= MaxBody
    /\ wire' = Append(wire, chunk)
    /\ decoder' = [decoder EXCEPT !.queue = Append(@, chunk)]
    /\ UNCHANGED <<future, pending, verb, requests, lastPoll, polled,
                   data, dataDone>>
    /\ UNCHANGED <<listVars, bucketVars, credVars>>

\* The body stream reaches its end.
BodyEnds ==
    /\ BodyOpen
    /\ decoder' = [decoder EXCEPT !.ended = TRUE]
    /\ UNCHANGED <<future, pending, wire, verb, requests, lastPoll, polled,
                   data, dataDone>>
    /\ UNCHANGED <<listVars, bucketVars, credVars>>

\* The body stream breaks.
BodyFails ==
    /\ BodyOpen
    /\ decoder' = [decoder EXCEPT !.failed = TRUE]
    /\ UNCHANGED <<future, pending, wire, verb, requests, lastPoll, polled,
                   data, dataDone>>
    /\ UNCHANGED <<listVars, bucketVars, credVars>>

\* One call of S3ResponseFuture::poll.
Poll ==
    /\ future # Unborn
    /\ LET s == PollLoop([future |-> future, pending |-> pending,
                          decoder |-> decoder, ret |-> NoPoll,
                          nPending |-> 0, nDecoder |-> 0])
       IN  /\ future' = s.future
           /\ pending' = s.pending
           /\ decoder' = s.decoder
           /\ lastPoll' = s.ret
           /\ polled' = [pending |-> s.nPending, decoder |-> s.nDecoder]
    /\ UNCHANGED <<wire, verb, requests, data, dataDone>>
    /\ UNCHANGED <<listVars, bucketVars, credVars>>

\* response.into_body().concat2() of the caller, after a success: takes
\* what the stream has ready, and completes at the end of the stream.
Concat2 ==
    /\ lastPoll.kind = "Ready"
    /\ ~dataDone
    /\ ~decoder.failed
    /\ decoder.queue # <<>> \/ decoder.ended
    /\ data' = data \o Concat(decoder.queue)
    /\ decoder' = [decoder EXCEPT !.queue = <<>>]
    /\ dataDone' = decoder.ended
    /\ UNCHANGED <<future, pending, wire, verb, requests, lastPoll, polled>>
    /\ UNCHANGED <<listVars, bucketVars, credVars>>

NextFuture ==
    \/ \E v \in Verbs, signed \in BOOLEAN : ExecuteAsync(v, signed)
    \/ \E status \in Statuses : HeadersArrive(status)
    \/ TransportFails
    \/ \E chunk \in Chunks(MaxBody - Len(Concat(wire))) : ChunkArrives(chunk)
    \/ BodyEnds
    \/ BodyFails
    \/ Poll
    \/ Concat2

\* The asynchronous request of one bucket, with no list call going on.
SpecFuture == InitFuture /\ [][NextFuture]_vars

\* The chunks that may still arrive in the study of progress: bytes of the
\* two kinds that decide whether the body parses, up to MaxLiveBody in all.
LiveChunks ==
    {chunk \in Chunks(MaxLiveBody - Len(Concat(wire))) :
        \A i \in 1..Len(chunk) : chunk[i] \in {"<", ">"}}

\* One status on each side of the threshold.
LiveStatuses == {200, 404}

\* get_async and what follows it up to the result of the future; what the
\* caller does with a response it got is left out.
NextFutureLive ==
    \/ \E signed \in BOOLEAN : ExecuteAsync("GET", signed)
    \/ \E status \in LiveStatuses : HeadersArrive(status)
    \/ TransportFails
    \/ \E chunk \in LiveChunks : ChunkArrives(chunk)
    \/ BodyEnds
    \/ BodyFails
    \/ Poll

\* The transport delivers the headers or an error; the body of a response
\* with status >= 300 ends or breaks; the executor polls the future a first
\* time and again after every NotReady.
FairFuture ==
    /\ WF_vars((\E status \in LiveStatuses : HeadersArrive(status)) \/ TransportFails)
    /\ WF_vars((BodyEnds \/ BodyFails) /\ pending.status >= 300)
    /\ WF_vars(Poll /\ lastPoll.kind \in {"NoPoll", "NotReady"})

\* The asynchronous request under a transport that answers and an executor
\* that keeps polling.
SpecFutureLive == InitFuture /\ [][NextFutureLive]_vars /\ FairFuture

\* A bucket whose server will answer the list requests as scripted; no
\* asynchronous request is made.
InitList ==
    /\ future = Unborn
    /\ pending = [st |-> "absent", status |-> 0]
    /\ decoder = NoDecoder
    /\ wire = <<>>
    /\ verb = "GET"
    /\ requests = 0
    /\ lastPoll = NoPoll
    /\ polled = [pending |-> 0, decoder |-> 0]
    /\ data = <<>>
    /\ dataDone = FALSE
    /\ server \in Scripts(MaxPages)
    /\ served = <<>>
    /\ sent = <<>>
    /\ listArgs = NoArgs
    /\ listResult = NoList
    /\ bucket = InitialBucket
    /\ clients = 1
    /\ calls = [t \in Threads |-> IdleCall]
    /\ lastSet = NoSet
    /\ asyncCall = NoAsyncCall
    /\ credInput = NoCredInput
    /\ credOutput = NoCredOutput

\* One call of Bucket::list(prefix, delimiter).
List(prefix, delimiter) ==
    /\ listResult = NoList
    /\ LET r == ListAll([server |-> server, served |-> served, sent |-> sent],
                        prefix, delimiter)
       IN  /\ server' = r.net.server
           /\ served' = r.net.served
           /\ sent' = r.net.sent
           /\ listResult' = [ret |-> r.ret, results |-> r.results]
    /\ listArgs' = [prefix |-> prefix, delimiter |-> delimiter]
    /\ UNCHANGED <<futureVars, bucketVars, credVars>>

NextList ==
    \E prefix \in Prefixes, delimiter \in Delimiters : List(prefix, delimiter)

SpecList == InitList /\ [][NextList]_vars

\* A thread calls Bucket::get, Bucket::delete or Bucket::put on the shared
\* Bucket, which no asynchronous request is using.
Call(t, path, command) ==
    /\ calls[t].pc = "idle"
    /\ asyncCall = NoAsyncCall
    /\ calls' = [calls EXCEPT ![t] = BucketCall(bucket, path, command)]
    /\ UNCHANGED <<futureVars, listVars, bucket, clients, lastSet, asyncCall,
                   credVars>>

\* The server answers the get, delete or put of a thread.
Return(t, response) ==
    /\ calls[t].pc = "waiting"
    /\ calls[t].request.command.type # "List"
    /\ calls' = [calls EXCEPT ![t] = BucketReturn(@, response)]
    /\ UNCHANGED <<futureVars, listVars, bucket, clients, lastSet, asyncCall,
                   credVars>>

\* A thread calls Bucket::list on the shared Bucket.
ListCall(t, prefix, delimiter) ==
    /\ calls[t].pc = "idle"
    /\ asyncCall = NoAsyncCall
    /\ calls' = [calls EXCEPT
                   ![t] = BucketCall(bucket, "/", CommandList(prefix, delimiter, Nothing))]
    /\ UNCHANGED <<futureVars, listVars, bucket, clients, lastSet, asyncCall,
                   credVars>>

\* The server answers a page request of a thread's list; it names a next page
\* at most MaxPages - 1 times.
ListReturn(t, response) ==
    /\ calls[t].pc = "waiting"
    /\ calls[t].request.command.type = "List"
    /\ calls[t].nsent = MaxPages => ~NamesNextPage(response)
    /\ calls' = [calls EXCEPT ![t] = BucketListReturn(@, response)]
    /\ UNCHANGED <<futureVars, listVars, bucket, clients, lastSet, asyncCall,
                   credVars>>

InitBucket ==
    /\ future = Unborn
    /\ pending = [st |-> "absent", status |-> 0]
    /\ decoder = NoDecoder
    /\ wire = <<>>
    /\ verb = "GET"
    /\ requests = 0
    /\ lastPoll = NoPoll
    /\ polled = [pending |-> 0, decoder |-> 0]
    /\ data = <<>>
    /\ dataDone = FALSE
    /\ server = <<>>
    /\ served = <<>>
    /\ sent = <<>>
    /\ listArgs = NoArgs
    /\ listResult = NoList
    /\ bucket = InitialBucket
    /\ clients = 1
    /\ calls = [t \in Threads |-> IdleCall]
    /\ lastSet = NoSet
    /\ asyncCall = NoAsyncCall
    /\ credInput = NoCredInput
    /\ credOutput = NoCredOutput

NextBucket ==
    \/ \E t \in Threads, path \in Paths, command \in SimpleCommands :
          Call(t, path, command)
    \/ \E t \in Threads, response \in SimpleResponses : Return(t, response)
    \/ \E t \in Threads, delimiter \in Delimiters : ListCall(t, "dir/", delimiter)
    \/ \E t \in Threads, response \in PageResponses : ListReturn(t, response)
    \/ \E v \in Verbs, signed \in BOOLEAN : ExecuteAsync(v, signed)
    \/ \E status \in Statuses : HeadersArrive(status)
    \/ TransportFails
    \/ \E chunk \in Chunks(MaxBody - Len(Concat(wire))) : ChunkArrives(chunk)
    \/ BodyEnds
    \/ BodyFails
    \/ Poll
    \/ Concat2

\* One Bucket shared by the threads for blocking calls, or used for one
\* asynchronous request.
SpecBucket == InitBucket /\ [][NextBucket]_vars

\* One call of Bucket::set_credentials.
SetCredentialsCall(credentials) ==
    /\ LET r == SetCredentials(bucket, credentials)
       IN  /\ bucket' = r.bucket
           /\ lastSet' = [called |-> TRUE, given |-> credentials,
                          returned |-> r.ret, before |-> bucket,
                          after |-> r.bucket]
    /\ UNCHANGED <<futureVars, listVars, clients, calls, asyncCall, credVars>>

\* One call of Bucket::add_header.
AddHeaderCall(key, value) ==
    /\ bucket' = AddHeader(bucket, key, value)
    /\ UNCHANGED <<futureVars, listVars, clients, calls, lastSet, asyncCall,
                   credVars>>

\* One call of Bucket::add_query.
AddQueryCall(key, value) ==
    /\ bucket' = AddQuery(bucket, key, value)
    /\ UNCHANGED <<futureVars, listVars, clients, calls, lastSet, asyncCall,
                   credVars>>

InitSettings ==
    /\ future = Unborn
    /\ pending = [st |-> "absent", status |-> 0]
    /\ decoder = NoDecoder
    /\ wire = <<>>
    /\ verb = "GET"
    /\ requests = 0
    /\ lastPoll = NoPoll
    /\ polled = [pending |-> 0, decoder |-> 0]
    /\ data = <<>>
    /\ dataDone = FALSE
    /\ server = <<>>
    /\ served = <<>>
    /\ sent = <<>>
    /\ listArgs = NoArgs
    /\ listResult = NoList
    /\ bucket \in {NewBucket("rust-s3-test", "us-east-1", c, 1) : c \in CredentialsSet}
    /\ clients = 1
    /\ calls = [t \in Threads |-> IdleCall]
    /\ lastSet = NoSet
    /\ asyncCall = NoAsyncCall
    /\ credInput = NoCredInput
    /\ credOutput = NoCredOutput

NextSettings ==
    \/ \E credentials \in CredentialsSet : SetCredentialsCall(credentials)
    \/ \E value \in HeaderValues : AddHeaderCall("x-amz-acl", value)
    \/ AddQueryCall("list-type", "2")

\* The owner of a Bucket changes its settings.
SpecSettings == InitSettings /\ [][NextSettings]_vars

\* One call of Credentials::new.
NewCredentials ==
    /\ credOutput = NoCredOutput
    /\ credOutput' = CredentialsNew(credInput.args, credInput.env, credInput.file)
    /\ UNCHANGED <<futureVars, listVars, bucketVars, credInput>>

InitCredentials ==
    /\ future = Unborn
    /\ pending = [st |-> "absent", status |-> 0]
    /\ decoder = NoDecoder
    /\ wire = <<>>
    /\ verb = "GET"
    /\ requests = 0
    /\ lastPoll = NoPoll
    /\ polled = [pending |-> 0, decoder |-> 0]
    /\ data = <<>>
    /\ dataDone = FALSE
    /\ server = <<>>
    /\ served = <<>>
    /\ sent = <<>>
    /\ listArgs = NoArgs
    /\ listResult = NoList
    /\ bucket = InitialBucket
    /\ clients = 1
    /\ calls = [t \in Threads |-> IdleCall]
    /\ lastSet = NoSet
    /\ asyncCall = NoAsyncCall
    /\ credInput \in [args : CredArgs, env : CredEnvs, file : CredFiles]
    /\ credOutput = NoCredOutput

NextCredentials == NewCredentials

\* Credentials::new under every combination of arguments, environment and
\* credentials file.
SpecCredentials == InitCredentials /\ [][NextCredentials]_vars

(* ---------------------- properties of the future ----------------------- *)

NoInnerPolls == [pending |-> 0, decoder |-> 0]

\* A call of poll has returned (or panicked) in this step.
PollReturned == lastPoll' # lastPoll

\* This step is the poll that takes the response out of the pending future.
HeadersTaken == pending.st = "response" /\ pending'.st = "taken"

\* C1: the poll that receives headers with status s returns a ready success
\* and leaves Done exactly when s < 300; from 300 on it goes into the
\* ParseError arm and no success is ever returned for that response,
\* whatever the verb of the request.
StatusThreshold ==
    /\ [][HeadersTaken =>
            IF pending.status < 300
            THEN /\ lastPoll' = Ready(pending.status)
                 /\ future' = Done
            ELSE /\ polled'.decoder >= 1
                 /\ lastPoll'.kind # "Ready"
                 /\ future'.tag \in {"ParseError", "Done", "None"}
                 /\ future'.tag = "ParseError" =>
                        future'.resp_code = pending.status]_vars
    /\ [](lastPoll.kind = "Ready" => pending.status < 300)

\* C1 witness: a DELETE answered with exactly 300 is in error-body parsing.
StatusThresholdWitness ==
    /\ verb = "DELETE"
    /\ pending.st = "taken"
    /\ pending.status = 300
    /\ future.tag = "ParseError"
    /\ lastPoll.kind = "NotReady"

\* The future has reached Done, or has already panicked on a poll.
DoneOrPanicked ==
    \/ future.tag = "Done"
    \/ future.tag = "None" /\ lastPoll.kind = "Panic"

\* C2: once the future is Done, every later poll panics: it returns no
\* Ready, NotReady or Err and touches neither the pending request nor the
\* body stream; this stays so for all later polls.
DoneFailsFast ==
    /\ [][DoneOrPanicked => DoneOrPanicked']_vars
    /\ [][DoneOrPanicked /\ PollReturned =>
            /\ lastPoll'.kind = "Panic"
            /\ polled' = NoInnerPolls
            /\ pending' = pending
            /\ decoder' = decoder]_vars

\* C2 witness: a future that returned a service error was polled again.
DoneFailsFastWitness ==
    /\ lastPoll = Panic("S3ResponseFuture used after Ready")
    /\ pending.status = 404
    /\ future = None

\* The pending request has failed and the future still awaits the headers.
PendingFailed == future.tag = "Pending" /\ pending.st = "error"

\* The body stream has failed and this poll will read the error body.
BodyFailedWhileParsing ==
    /\ decoder.failed
    /\ \/ future.tag = "ParseError"
       \/ /\ future.tag = "Pending"
          /\ pending.st = "response"
          /\ pending.status >= 300

\* C3: a poll that meets a transport error of the pending request, or an
\* error of the body decoder, returns that error itself, leaves no success
\* and no service error, and the transport is not polled after the error,
\* neither in that call nor in a later one.
ErrorsReturnedAtOnce ==
    /\ [][PollReturned /\ PendingFailed =>
            /\ lastPoll' = ReqwestError
            /\ polled' = [pending |-> 1, decoder |-> 0]
            /\ future' = None]_vars
    /\ [][PollReturned /\ BodyFailedWhileParsing =>
            /\ lastPoll' = ReqwestError
            /\ polled'.decoder = Len(decoder.queue) + 1
            /\ future' = None]_vars
    /\ [][PollReturned /\ future.tag = "None" =>
            /\ lastPoll'.kind = "Panic"
            /\ polled' = NoInnerPolls
            /\ pending' = pending
            /\ decoder' = decoder]_vars

\* C3 witness: the decoder failed after delivering a chunk of an error body.
ErrorsReturnedAtOnceWitness ==
    /\ lastPoll = ReqwestError
    /\ decoder.failed
    /\ pending.status >= 300
    /\ polled.decoder >= 2
    /\ future = None

(* ------------------------- the two outcomes ---------------------------- *)

\* What the caller of the future holds once poll has returned a result (and,
\* for a success, once the caller has drained the body).
AsyncOutcome ==
    CASE lastPoll.kind = "Ready" ->
            Outcome("Success", lastPoll.status, <<>>, data)
      [] lastPoll.error = "AwsError" ->
            Outcome("ServiceError", lastPoll.status, lastPoll.info, lastPoll.body)
      [] lastPoll.error = "SerdeXml" ->
            Outcome("MalformedErrorBody", 0, <<>>, <<>>)
      [] OTHER -> Outcome("TransportError", 0, <<>>, <<>>)

ReadsWholeErrorBody ==
    /\ decoder.ended
    /\ \/ future.tag = "ParseError"
       \/ /\ future.tag = "Pending"
          /\ pending.st = "response"
          /\ pending.status >= 300
WholeErrorBody == future.buffer \o Concat(decoder.queue)

\* C5: when the body of a status >= 300 response ends and does not parse,
\* poll returns an error that is neither the service error nor the
\* transport error, and does not panic.
MalformedBodyIsAnError ==
    [][PollReturned /\ ReadsWholeErrorBody /\ ~Deserialize(WholeErrorBody).ok =>
            /\ lastPoll' = SerdeXmlError
            /\ lastPoll'.kind = "Err"
            /\ lastPoll'.error \notin {"AwsError", "Reqwest"}]_vars

\* C5 witness: a 404 whose body did not parse.
MalformedBodyIsAnErrorWitness ==
    /\ lastPoll = SerdeXmlError
    /\ pending.status = 404
    /\ wire # <<>>
    /\ decoder.queue = <<>>

\* C6: the error returned for an unparsable error body carries the raw
\* bytes accumulated from the response.
MalformedCarriesRawBytes ==
    lastPoll.error = "SerdeXml" => lastPoll.body = Concat(wire)

\* C9: the service error of a status >= 300 response whose body parses
\* carries the status read from the headers, kept through every chunk and
\* suspension in between.
StatusConveyed ==
    /\ [][PollReturned /\ ReadsWholeErrorBody /\ Deserialize(WholeErrorBody).ok =>
            /\ lastPoll'.error = "AwsError"
            /\ lastPoll'.status = pending.status]_vars
    /\ [](future.tag = "ParseError" => future.resp_code = pending.status)
    /\ [](lastPoll.error = "AwsError" =>
            lastPoll.status = pending.status /\ lastPoll.status >= 300)

\* C9 witness: a 404 service error whose body came in several chunks, with
\* a suspension before the last poll.
StatusConveyedWitness ==
    /\ lastPoll.error = "AwsError"
    /\ lastPoll.status = 404
    /\ Len(wire) >= 2
    /\ polled = [pending |-> 0, decoder |-> 2]

\* C10: a status < 300 is answered with success by the very poll that took
\* the headers, and that poll reads nothing from the body: every byte on
\* the wire is still the caller's to drain.
LazySuccess ==
    /\ [][HeadersTaken /\ pending.status < 300 =>
            /\ lastPoll'.kind = "Ready"
            /\ polled' = [pending |-> 1, decoder |-> 0]
            /\ decoder' = decoder]_vars
    /\ [](lastPoll.kind = "Ready" =>
            data \o Concat(decoder.queue) = Concat(wire))

\* C10 witness: success returned while two chunks wait, undrained.
LazySuccessWitness ==
    /\ lastPoll.kind = "Ready"
    /\ Len(decoder.queue) = 2
    /\ data = <<>>
    /\ future = Done

(* ----------------------- properties of Bucket::list -------------------- *)

\* The page and status code that list keeps for a served response.
Fetched(response) ==
    <<[contents |-> response.body.contents,
       next_continuation_token |-> response.body.next_continuation_token],
      response.status>>

\* A served response that is a list page without a next continuation token.
IsLastPage(response) ==
    /\ response.kind = "Response"
    /\ response.status < 300
    /\ response.body.xml = "ListBucketResult"
    /\ response.body.next_continuation_token = Nothing

\* C7: list returns the pages in the order fetched, every page but the last
\* with a token and the last without; the first token-less page ends the
\* fetching, and no request follows it.
PaginationClosure ==
    /\ listResult.ret = "Ok" =>
            LET results == listResult.results
                n == Len(results)
            IN  /\ n >= 1
                /\ Len(served) = n
                /\ Len(sent) = n
                /\ \A i \in 1..n : results[i] = Fetched(served[i])
                /\ \A i \in 1..(n - 1) :
                        results[i][1].next_continuation_token # Nothing
                /\ results[n][1].next_continuation_token = Nothing
    /\ \A i \in 1..Len(served) :
            IsLastPage(served[i]) =>
                /\ i = Len(served)
                /\ Len(sent) = i
                /\ listResult.ret = "Ok"

\* C7 witness: three pages, two with a token and the third without.
PaginationClosureWitness ==
    /\ listResult.ret = "Ok"
    /\ Len(listResult.results) = 3
    /\ listResult.results[1][1].contents # listResult.results[2][1].contents

\* C8: the first request carries no continuation token, each later one
\* carries the token of the page fetched just before it, and all carry the
\* prefix and delimiter list was called with.
TokenChaining ==
    listResult # NoList =>
        /\ Len(sent) >= 1
        /\ Len(served) >= Len(sent) - 1
        /\ sent[1].continuation_token = Nothing
        /\ \A i \in 2..Len(sent) :
                /\ sent[i].continuation_token # Nothing
                /\ sent[i].continuation_token =
                        served[i - 1].body.next_continuation_token
        /\ \A i \in 1..Len(sent) :
                /\ sent[i].prefix = listArgs.prefix
                /\ sent[i].delimiter = listArgs.delimiter

\* C8 witness: three requests, the later two with two different tokens.
TokenChainingWitness ==
    /\ Len(sent) = 3
    /\ sent[2].continuation_token = Some("abc")
    /\ sent[3].continuation_token = Some("def")
    /\ listArgs = [prefix |-> "dir/", delimiter |-> Some("/")]

\* A served response that list can use: a list document with a success status.
IsPage(response) ==
    /\ response.kind = "Response"
    /\ response.status < 300
    /\ response.body.xml = "ListBucketResult"

\* C22: when a page request fails, the first or a later one, list returns the
\* error with none of the pages fetched before, and the failed request is the
\* last one sent: it is not sent again and no further page is asked for.
ListFailsAtOnce ==
    /\ listResult.ret = "Err" =>
            LET n == Len(served)
            IN  /\ listResult.results = <<>>
                /\ n >= 1
                /\ Len(sent) = n
                /\ ~IsPage(served[n])
                /\ \A i \in 1..(n - 1) :
                        /\ IsPage(served[i])
                        /\ served[i].body.next_continuation_token # Nothing
    /\ \A i \in 1..Len(served) :
            ~IsPage(served[i]) =>
                /\ i = Len(served)
                /\ Len(sent) = i
                /\ listResult.ret = "Err"
                /\ listResult.results = <<>>

\* C22 witness: two pages fetched, then the third request meets a transport
\* error.
ListFailsAtOnceWitness ==
    /\ listResult.ret = "Err"
    /\ Len(served) = 3
    /\ served[3].kind = "TransportError"
    /\ IsPage(served[1])
    /\ IsPage(served[2])

\* A call of poll has left a trace in this step.
PollActed ==
    /\ future # Unborn
    /\ lastPoll' # lastPoll \/ polled' # polled \/ future' # future

\* The request is in flight and the future awaits the headers.
HeadersAwaited == future = Pending /\ pending.st = "inflight"

\* The poll of this step reads an error body whose stream is still open.
BodyAwaited ==
    /\ ~decoder.ended
    /\ ~decoder.failed
    /\ \/ future.tag = "ParseError"
       \/ /\ future.tag = "Pending"
          /\ pending.st = "response"
          /\ pending.status >= 300

\* C11: poll returns NotReady exactly when the pending request is not
\* ready or when the decoder is not ready during an error body; the future
\* is then put back as it was: Pending with the request untouched, or
\* ParseError with the status and every byte read so far, from where the
\* next poll goes on.
SuspendsAtTwoPoints ==
    /\ [][PollActed /\ lastPoll'.kind = "NotReady" =>
            \/ /\ HeadersAwaited
               /\ future' = Pending
               /\ pending' = pending
               /\ decoder' = decoder
               /\ polled' = [pending |-> 1, decoder |-> 0]
            \/ /\ BodyAwaited
               /\ future' = ParseError(future.buffer \o Concat(decoder.queue),
                                       pending.status)
               /\ decoder' = [decoder EXCEPT !.queue = <<>>]
               /\ polled'.decoder = Len(decoder.queue) + 1]_vars
    /\ [][PollActed /\ (HeadersAwaited \/ BodyAwaited) =>
            lastPoll' = NotReady]_vars
    /\ [](lastPoll.kind = "NotReady" => future.tag \in {"Pending", "ParseError"})

\* C11 witness: a second suspension in ParseError, with bytes already read.
SuspendsAtTwoPointsWitness ==
    /\ lastPoll = NotReady
    /\ future.tag = "ParseError"
    /\ future.buffer # <<>>
    /\ polled = [pending |-> 0, decoder |-> 1]

\* The chunks the decoder has handed out so far, in arrival order.
Delivered == SubSeq(wire, 1, Len(wire) - Len(decoder.queue))

\* s is a prefix of t.
IsPrefix(s, t) == Len(s) <= Len(t) /\ SubSeq(t, 1, Len(s)) = s

\* C17: during an error body the buffer is the concatenation, in arrival
\* order, of exactly the chunks delivered so far, and it grows by appending
\* only; the service error comes after the end of the stream, and its body
\* is the concatenation of all the chunks.
BufferIsDeliveredChunks ==
    /\ [](future.tag = "ParseError" =>
            /\ pending.status >= 300
            /\ future.buffer = Concat(Delivered))
    /\ [][future.tag = "ParseError" /\ future'.tag = "ParseError" =>
            IsPrefix(future.buffer, future'.buffer)]_vars
    /\ [](lastPoll.error = "AwsError" =>
            /\ decoder.ended
            /\ decoder.queue = <<>>
            /\ lastPoll.body = Concat(wire))

\* C17 witness: two chunks in the buffer and a third one waiting.
BufferIsDeliveredChunksWitness ==
    /\ future.tag = "ParseError"
    /\ Len(wire) = 3
    /\ Len(decoder.queue) = 1
    /\ Len(future.buffer) = 2
    /\ future.buffer[1] # future.buffer[2]

\* How far the future has come: Pending, then ParseError, then the terminal
\* states Done and None.
Rank(f) ==
    CASE f.tag = "Unborn" -> 0
      [] f.tag = "Pending" -> 1
      [] f.tag = "ParseError" -> 2
      [] OTHER -> 3

\* C19: a ParseError state holds the status read from the headers, which is
\* at least 300, and the future only moves forward: from Pending to
\* Pending, ParseError or a terminal state, from ParseError to ParseError or
\* a terminal state, and from a terminal state (Done, None) to none but a
\* terminal state.
OnlyForward ==
    /\ [](future.tag = "ParseError" =>
            /\ future.resp_code >= 300
            /\ pending.st = "taken"
            /\ future.resp_code = pending.status)
    /\ [][Rank(future') >= Rank(future)]_vars
    /\ [][future.tag \in {"Done", "None"} => future'.tag \in {"Done", "None"}]_vars

\* C19 witness: a future in ParseError for a 300, polled twice since the
\* headers.
OnlyForwardWitness ==
    /\ future.tag = "ParseError"
    /\ future.resp_code = 300
    /\ future.buffer # <<>>
    /\ polled = [pending |-> 0, decoder |-> 2]

\* C20: one terminal result at most. A poll that returns a transport
\* error, a decoder error or a parse error leaves None; a poll that returns
\* NotReady, a success or a service error never leaves None; and after any
\* result or error every later poll panics.
OneTerminalResult ==
    /\ [](lastPoll.error \in {"Reqwest", "SerdeXml"} => future = None)
    /\ [](lastPoll.kind = "NotReady" => future.tag \in {"Pending", "ParseError"})
    /\ [](lastPoll.kind = "Ready" \/ lastPoll.error = "AwsError" => future = Done)
    /\ [][lastPoll.kind \in {"Ready", "Err", "Panic"} /\ PollReturned =>
            /\ lastPoll'.kind = "Panic"
            /\ future' = None]_vars

\* C20 witness: a future whose request failed was polled again.
OneTerminalResultWitness ==
    /\ lastPoll = Panic("S3ResponseFuture is None")
    /\ pending = [st |-> "taken", status |-> 0]
    /\ future = None

(* ----------------------- properties of execute_async ------------------- *)

\* C18: when building the signed headers fails, execute_async returns the
\* error and nothing else happens: no request is sent, no pending request
\* future exists, and there is nothing to poll.
HeadersFailureSendsNothing ==
    asyncCall.result = "Err" =>
        /\ requests = 0
        /\ future = Unborn
        /\ pending.st = "absent"
        /\ lastPoll = NoPoll
        /\ wire = <<>>

HeadersFailureSendsNothingWitness ==
    /\ asyncCall.result = "Err"
    /\ verb = "PUT"

\* C14: every request of the Bucket, blocking or asynchronous, is sent with the
\* one client the Bucket built at construction, and no other client is built.
SingleSharedClient ==
    /\ clients = 1
    /\ asyncCall.result = "Ok" => asyncCall.client = bucket.client
    /\ \A t \in Threads :
          calls[t].pc # "idle" => RequestClient(calls[t].request) = bucket.client

(* ----------------------- properties of the Bucket ----------------------- *)

SimpleCall(call) == call.pc # "idle" /\ call.request.command.type # "List"

\* C12: a get, put or delete has sent exactly one request and returns on its
\* first answer, failure included; an asynchronous request is sent exactly once
\* however the future ends, and none is sent when execute_async fails.
OneRequestPerCall ==
    /\ \A t \in Threads :
          SimpleCall(calls[t]) =>
              /\ calls[t].nsent = 1
              /\ calls[t].pc = "done" <=> calls[t].answers = 1
              /\ calls[t].pc = "done" => calls[t].outcome.ret \in {"Ok", "Err"}
    /\ asyncCall.result = "Ok" <=> requests = 1
    /\ asyncCall.result # "Ok" => requests = 0
    /\ future # Unborn => requests = 1

OneRequestPerCallWitness ==
    \E t \in Threads :
        /\ calls[t].pc = "done"
        /\ calls[t].request.command.type = "Put"
        /\ calls[t].outcome.error = "ServiceError"
        /\ calls[t].nsent = 1

\* The step of one thread's call, as it would be with no other thread around.
Alone(b, call, next) ==
    \/ /\ call.pc = "idle"
       /\ next = BucketCall(b, next.request.path, next.request.command)
    \/ /\ call.pc = "waiting"
       /\ call.request.command.type # "List"
       /\ \E response \in SimpleResponses : next = BucketReturn(call, response)
    \/ /\ call.pc = "waiting"
       /\ call.request.command.type = "List"
       /\ \E response \in PageResponses : next = BucketListReturn(call, response)

\* C15: whatever the interleaving of the threads' get, put, delete and list
\* calls, a step of one call leaves the Bucket and the other calls as they
\* are, its request is built from the Bucket as it is, and its result is the
\* one the call would have alone.
CallsAreIndependent ==
    [][\A t \in Threads :
          calls'[t] # calls[t] =>
              /\ bucket' = bucket
              /\ bucket = InitialBucket
              /\ \A u \in Threads \ {t} : calls'[u] = calls[u]
              /\ calls'[t].request.bucket = bucket
              /\ Alone(bucket, calls[t], calls'[t])]_vars

CallsAreIndependentWitness ==
    /\ calls["t1"].pc = "done"
    /\ calls["t1"].request.command.type = "List"
    /\ Len(calls["t1"].results) = 2
    /\ calls["t2"].pc = "done"
    /\ calls["t2"].request.command.type = "Put"
    /\ calls["t2"].outcome.ret = "Err"
    /\ bucket = InitialBucket

\* C16: set_credentials(c) returns the credentials held before the call and
\* leaves a Bucket that differs from the one before in its credentials only,
\* which are c; set_credentials with the returned value gives back the Bucket
\* of before, and returns c.
SetCredentialsSwaps ==
    lastSet.called =>
        /\ lastSet.returned = lastSet.before.credentials
        /\ lastSet.after.credentials = lastSet.given
        /\ lastSet.after = [lastSet.before EXCEPT !.credentials = lastSet.given]
        /\ SetCredentials(lastSet.after, lastSet.returned).bucket = lastSet.before
        /\ SetCredentials(lastSet.after, lastSet.returned).ret = lastSet.given

SetCredentialsSwapsWitness ==
    /\ lastSet.called
    /\ lastSet.given # lastSet.before.credentials
    /\ lastSet.before.extra_headers # {}
    /\ lastSet.before.extra_query # {}
    /\ bucket = lastSet.after

(* --------------------- properties of Credentials::new ------------------- *)

ArgsGiven ==
    credInput.args.access_key # Nothing /\ credInput.args.secret_key # Nothing

EnvSupplies ==
    /\ credInput.env.AWS_ACCESS_KEY_ID # Nothing
    /\ credInput.env.AWS_SECRET_ACCESS_KEY # Nothing

\* C13: Credentials::new prefers arguments, then the environment, then the
\* credentials file: with both keys given as arguments it returns them and
\* reads neither the environment nor the file; it reads the environment only
\* when the arguments do not give both keys, and returns the environment's
\* credentials when it has both keys; it reads the file only after the
\* environment, when the environment lacks a key.
ResolutionOrder ==
    credOutput.ret # "NoCall" =>
        /\ ArgsGiven =>
              /\ credOutput.consulted = <<>>
              /\ credOutput.ret = "Ok"
              /\ credOutput.credentials =
                    Credentials(credInput.args.access_key[1],
                                credInput.args.secret_key[1],
                                credInput.args.token)
        /\ credOutput.consulted # <<>> =>
              /\ ~ArgsGiven
              /\ credOutput.consulted[1] = "env"
        /\ ~ArgsGiven /\ EnvSupplies =>
              /\ credOutput.consulted = <<"env">>
              /\ credOutput.ret = "Ok"
              /\ credOutput.credentials =
                    Credentials(credInput.env.AWS_ACCESS_KEY_ID[1],
                                credInput.env.AWS_SECRET_ACCESS_KEY[1],
                                credInput.env.AWS_SESSION_TOKEN)
        /\ ~ArgsGiven /\ ~EnvSupplies =>
              /\ credOutput.consulted = <<"env", "file">>
              /\ credOutput.ret = "Ok" =>
                    credOutput.credentials.access_key = "FILE_KEY"
        /\ Len(credOutput.consulted) = 2 => ~EnvSupplies

ResolutionOrderWitness ==
    /\ credOutput.ret = "Ok"
    /\ ArgsGiven
    /\ EnvSupplies
    /\ credInput.file.loads
    /\ credInput.file.sections["default"].aws_access_key_id # Nothing
    /\ credInput.file.sections["default"].aws_secret_access_key # Nothing
    /\ credOutput.credentials.access_key = "ARG_KEY"

\* The section of the credentials file that from_profile reads.
ProfileSection ==
    credInput.file.sections[IF credInput.args.profile # Nothing
                            THEN credInput.args.profile[1]
                            ELSE "default"]

FileSupplies ==
    /\ credInput.file.home
    /\ credInput.file.loads
    /\ ProfileSection.present
    /\ ProfileSection.aws_access_key_id # Nothing
    /\ ProfileSection.aws_secret_access_key # Nothing

WhollyFromArgs ==
    /\ ArgsGiven
    /\ credOutput.credentials =
          Credentials(credInput.args.access_key[1], credInput.args.secret_key[1],
                      credInput.args.token)

WhollyFromEnv ==
    /\ EnvSupplies
    /\ credOutput.credentials =
          Credentials(credInput.env.AWS_ACCESS_KEY_ID[1],
                      credInput.env.AWS_SECRET_ACCESS_KEY[1],
                      credInput.env.AWS_SESSION_TOKEN)

WhollyFromFile ==
    /\ FileSupplies
    /\ credOutput.credentials =
          Credentials(ProfileSection.aws_access_key_id[1],
                      ProfileSection.aws_secret_access_key[1], Nothing)

\* C23: the credentials Credentials::new returns come wholly from one source:
\* from the arguments exactly when both keys are given; otherwise from the
\* environment or the file with nothing of the arguments in them, not even a
\* token that was given; from the file without a token; and the call panics
\* exactly when no source supplies both keys.
SingleSource ==
    credOutput.ret # "NoCall" =>
        /\ credOutput.ret = "Ok" =>
              WhollyFromArgs \/ WhollyFromEnv \/ WhollyFromFile
        /\ ArgsGiven <=> credOutput.ret = "Ok" /\ WhollyFromArgs
        /\ ~ArgsGiven /\ credOutput.ret = "Ok" =>
              /\ credOutput.credentials.access_key # "ARG_KEY"
              /\ credOutput.credentials.secret_key # "ARG_SECRET"
              /\ credOutput.credentials.token # Some("ARG_TOKEN")
        /\ credOutput.ret = "Ok" /\ credOutput.credentials.access_key = "FILE_KEY" =>
              /\ WhollyFromFile
              /\ credOutput.credentials.token = Nothing
        /\ credOutput.ret = "Panic" <=> ~ArgsGiven /\ ~EnvSupplies /\ ~FileSupplies
        /\ credOutput.ret \in {"Ok", "Panic"}

\* C23 witness: the access key and a token given without the secret key, the
\* environment with a token but one key only, and the file with both keys.
SingleSourceWitness ==
    /\ credOutput.ret = "Ok"
    /\ credInput.args.access_key # Nothing
    /\ credInput.args.secret_key = Nothing
    /\ credInput.args.token # Nothing
    /\ credInput.args.profile = Some("work")
    /\ credInput.env.AWS_ACCESS_KEY_ID # Nothing
    /\ credInput.env.AWS_SECRET_ACCESS_KEY = Nothing
    /\ credInput.env.AWS_SESSION_TOKEN # Nothing
    /\ WhollyFromFile

(* ------------------------ progress of the future ------------------------ *)

\* poll has returned a response or an error.
Terminal == lastPoll.kind \in {"Ready", "Err"}

\* The bytes of the error body at hand when the poll of this step starts.
AtHand ==
    (IF future.tag = "ParseError" THEN future.buffer ELSE <<>>)
        \o Concat(decoder.queue)

\* C21: under a transport that delivers the headers or an error and ends or
\* breaks the body of a status >= 300 response, and an executor that polls
\* again after every NotReady, the future returns a response or an error;
\* and a poll that reads an error body takes every chunk at hand in that one
\* call: it leaves the decoder's queue empty and has all the bytes in the
\* buffer, or in the error it returns.
EventuallyTerminal ==
    /\ (future = Pending) ~> Terminal
    /\ [][PollActed /\ polled'.decoder > 0 =>
            /\ decoder'.queue = <<>>
            /\ polled'.decoder >= Len(decoder.queue) + 1
            /\ future'.tag = "ParseError" => future'.buffer = AtHand
            /\ lastPoll'.error = "AwsError" =>
                    lastPoll'.body = FromUtf8Lossy(AtHand)]_vars

\* C21 witness: a service error returned by a poll that read two chunks and
\* the end of the body in one call.
EventuallyTerminalWitness ==
    /\ lastPoll.error = "AwsError"
    /\ polled.decoder = 3
    /\ Len(wire) = 2

====
